---- MODULE Spec2Model ----
(***************************************************************************)
(* Model of the value-stringability utilities of form-radio-group-input:   *)
(* the predicates IsValueStringable / IsValuePrimitiveStringable           *)
(* (RadioGroupInput.types.ts), the exemplar generators, label and          *)
(* expectation functions and the object-array helpers                      *)
(* (RadioGroupInput.fixtures.services.ts), the InputLabelExpected builders *)
(* and the RadioGroupInput fixtures (RadioGroupInput.fixtures.ts), the     *)
(* table tests (RadioGroupInput.types.test.ts) and the component           *)
(* (RadioGroupInput.tsx) with the clicks of its stories.                   *)
(*                                                                         *)
(* A JavaScript value is a record                                          *)
(*   typeof       what the typeof operator reports for it                  *)
(*   sub          the value inside its category: a string's text, a        *)
(*                number's digits or "NaN", "null", an object's class      *)
(*                ("NullProto": no prototype; "ThrowingProto": a prototype *)
(*                whose toString throws),                                  *)
(*                a function's name                                        *)
(*   tag          Symbol.toStringTag in value                              *)
(*   ownToString  the value's own toString property: "absent", a function  *)
(*                that "returns", a function that "throws", "notFunction", *)
(*                or an accessor whose getter throws ("getterThrows")      *)
(*   ref          the heap address of a mutable array or record the caller *)
(*                can reach, 0 for every other value                       *)
(* A call's outcome is a record [ret, threw, calls]: the value returned,   *)
(* whether an exception left the call, and how many times a member of the  *)
(* argument was invoked.                                                   *)
(* history lists the predicate calls made so far; radio is the state of    *)
(* the mounted radio group: its current value and the item clicked last.   *)
(***************************************************************************)
EXTENDS Integers, Sequences, FiniteSets, TLC

VARIABLES heap, result, nsteps, history, radio

vars == <<heap, result, nsteps, history, radio>>

\* ------------------------------------------------------------- bounds
MaxSteps == 3
MaxLen == 2

\* ------------------------------------------------------------- values
MkVal(t, s, tg, ts) == [typeof |-> t, sub |-> s, tag |-> tg, ownToString |-> ts, ref |-> 0]

Str(s) == MkVal("string", s, FALSE, "absent")
Num(s) == MkVal("number", s, FALSE, "absent")
Bool(s) == MkVal("boolean", s, FALSE, "absent")
BigInt(s) == MkVal("bigint", s, FALSE, "absent")
Sym(s) == MkVal("symbol", s, FALSE, "absent")
Undefined == MkVal("undefined", "undefined", FALSE, "absent")
Null == MkVal("object", "null", FALSE, "absent")
Obj(cls, tg, ts) == MkVal("object", cls, tg, ts)
Fn(name) == MkVal("function", name, FALSE, "absent")
Ref(r) == [typeof |-> "object", sub |-> "Ref", tag |-> FALSE, ownToString |-> "absent", ref |-> r]

JSBool(b) == IF b THEN Bool("true") ELSE Bool("false")

ObjectClasses == {"Object", "Array", "Date", "RegExp", "NullProto", "ThrowingProto"}
ToStringKinds == {"absent", "returns", "throws", "notFunction", "getterThrows"}

PrimitiveValues ==
    {Str("string"), Str(""), Str("1"), Str("2"), Num("42"), Num("1"), Num("NaN"),
     Bool("true"), Bool("false"), Undefined, Null, Sym("sym"), BigInt("123"), BigInt("1")}

ObjectValues == {Obj(c, tg, ts) : c \in ObjectClasses, tg \in BOOLEAN, ts \in ToStringKinds}

FunctionValues == {Fn(""), Fn("anonymous"), Fn("namedFunc")}

Values == PrimitiveValues \cup ObjectValues \cup FunctionValues

\* ----------------------------------------------------------- outcomes
Ret(v) == [ret |-> v, threw |-> FALSE, calls |-> 0]
RetAfter(v, n) == [ret |-> v, threw |-> FALSE, calls |-> n]
Throw(dummy, n) == [ret |-> dummy, threw |-> TRUE, calls |-> n]

\* The typeof operator and strict equality with null: neither reads a
\* property of its operand.
TypeOf(value) == value.typeof
IsNullValue(value) == value.typeof = "object" /\ value.sub = "null"

\* String(value) as the component applies it: a primitive converts by its
\* category; an object converts through its toString (own or inherited),
\* and through valueOf when toString is not callable.
String(value) ==
    IF value.typeof = "symbol" THEN Ret("Symbol(" \o value.sub \o ")")
    ELSE IF value.typeof # "object" /\ value.typeof # "function" THEN Ret(value.sub)
    ELSE IF IsNullValue(value) THEN Ret("null")
    ELSE IF value.ownToString = "throws" THEN Throw("", 1)
    ELSE IF value.ownToString = "returns" THEN RetAfter("custom", 1)
    ELSE IF value.ownToString = "notFunction"
         THEN IF value.sub = "Date" THEN RetAfter("0", 1) ELSE Throw("", 1)
    ELSE IF value.ownToString = "getterThrows" THEN Throw("", 1)
    ELSE IF value.sub = "NullProto" THEN Throw("", 0)
    ELSE IF value.sub = "ThrowingProto" THEN Throw("", 1)
    ELSE IF value.typeof = "function" THEN RetAfter("function " \o value.sub \o "() {}", 1)
    ELSE IF value.sub = "Array" THEN RetAfter("", 1)
    ELSE IF value.sub = "Date" THEN RetAfter("Thu Jan 01 1970", 1)
    ELSE IF value.sub = "RegExp" THEN RetAfter("/abc/", 1)
    ELSE IF value.tag THEN RetAfter("[object Custom]", 1)
    ELSE RetAfter("[object Object]", 1)

\* ---------------------------------------------------------- predicates
IsValueStringable_NoObject(value) ==
    IF TypeOf(value) \in {"string", "number", "boolean", "bigint", "symbol", "undefined", "function"}
    THEN Ret(TRUE)
    ELSE Ret(IsNullValue(value))

IsValueStringable_TryString(value) ==
    LET s == String(value) IN [ret |-> ~s.threw, threw |-> FALSE, calls |-> s.calls]

IsValueStringable_viaIsNumber(value) ==
    IF TypeOf(value) \in {"string", "boolean", "bigint", "symbol", "undefined", "object", "function"}
          \/ (TypeOf(value) = "number" /\ value.sub # "NaN")
    THEN Ret(TRUE)
    ELSE Ret(IsNullValue(value))

IsValueStringable(value) ==
    IF TypeOf(value) \in {"string", "number", "boolean", "bigint", "symbol", "undefined", "object", "function"}
    THEN Ret(TRUE)
    ELSE Ret(IsNullValue(value))

IsValuePrimitiveStringable_NoNull(value) ==
    IF TypeOf(value) \in {"string", "number", "boolean", "bigint", "symbol", "undefined"}
    THEN Ret(TRUE)
    ELSE Ret(FALSE)

IsValuePrimitiveStringable_AcceptsFunction(value) ==
    IF TypeOf(value) \in {"string", "number", "boolean", "bigint", "symbol", "undefined", "function"}
    THEN Ret(TRUE)
    ELSE Ret(IsNullValue(value))

IsValuePrimitiveStringable_staleCache(value) ==
    IF history # <<>> THEN history[Len(history)].out
    ELSE IF TypeOf(value) \in {"string", "number", "boolean", "bigint", "symbol", "undefined"}
    THEN Ret(TRUE)
    ELSE Ret(IsNullValue(value))

IsValuePrimitiveStringable(value) ==
    IF TypeOf(value) \in {"string", "number", "boolean", "bigint", "symbol", "undefined"}
    THEN Ret(TRUE)
    ELSE Ret(IsNullValue(value))

\* ------------------------------------------------- primitive helpers
isNull(value) == IsNullValue(value)
isBigInt(value) == TypeOf(value) = "bigint"
isSymbol(value) == TypeOf(value) = "symbol"
isString(value) == TypeOf(value) = "string"
isNumber_acceptsNaN(value) == TypeOf(value) = "number"
isNumber(value) == TypeOf(value) = "number" /\ value.sub # "NaN"
isBoolean(value) == TypeOf(value) = "boolean"
isUndefined(value) == TypeOf(value) = "undefined"

isPrimitive(value) ==
    isString(value) \/ isNumber(value) \/ isBoolean(value) \/ isUndefined(value)
        \/ isNull(value) \/ isSymbol(value) \/ isBigInt(value)

getTypeOf(value) == TypeOf(value)

getPrimitiveLabelValue_typeofOnly(value) == getTypeOf(value)

getPrimitiveLabelValue(value) ==
    IF isNull(value) THEN "null"
    ELSE IF isBigInt(value) THEN "bigint"
    ELSE IF isSymbol(value) THEN "symbol"
    ELSE IF isString(value) THEN "string"
    ELSE IF isNumber(value) THEN "number"
    ELSE IF isBoolean(value) THEN "boolean"
    ELSE IF isUndefined(value) THEN "undefined"
    ELSE getTypeOf(value)

getPrimitiveExpectedValue(value) ==
    IF isNull(value) THEN TRUE
    ELSE IF isBigInt(value) THEN TRUE
    ELSE IF isSymbol(value) THEN TRUE
    ELSE IF isString(value) THEN TRUE
    ELSE IF isNumber(value) THEN TRUE
    ELSE IF isBoolean(value) THEN TRUE
    ELSE IF isUndefined(value) THEN TRUE
    ELSE FALSE

\* -------------------------------------------------- function helpers
\* fn.name is "" for a function without a name.
isArrowFunction_emptyOnly(fn) == fn.sub = ""
isArrowFunction(fn) == fn.sub = "" \/ fn.sub = "anonymous"
isNamedFunction(fn) == fn.sub # "" /\ fn.sub # "anonymous"

getFunctionLabelValue(fn) ==
    IF isArrowFunction(fn) THEN "arrow function"
    ELSE IF isNamedFunction(fn) THEN "named function"
    ELSE "function"

getFunctionExpectedValue(fn) ==
    IF isArrowFunction(fn) THEN TRUE
    ELSE IF isNamedFunction(fn) THEN TRUE
    ELSE FALSE

\* ---------------------------------------------------- object helpers
isArray(obj) == obj.typeof = "object" /\ obj.sub = "Array"
isDate(obj) == obj.typeof = "object" /\ obj.sub = "Date"
isRegExp(obj) == obj.typeof = "object" /\ obj.sub = "RegExp"

\* typeof obj === 'object' && Symbol.toStringTag in obj: the in operator
\* throws a TypeError when its right operand is null.
hasCustomToStringTag(obj) ==
    IF TypeOf(obj) # "object" THEN Ret(FALSE)
    ELSE IF IsNullValue(obj) THEN Throw(FALSE, 0)
    ELSE Ret(obj.tag)

\* The trial call: an own toString that is a function is invoked once and
\* what it throws is caught. The condition of the if is evaluated outside
\* the try: typeof obj.toString reads the own property, and a getter that
\* throws there is not caught.
throwsOnToString(obj) ==
    IF TypeOf(obj) = "object" /\ ~IsNullValue(obj) /\ obj.ownToString \in {"returns", "throws"}
    THEN RetAfter(obj.ownToString = "throws", 1)
    ELSE IF IsNullValue(obj) THEN Throw(FALSE, 0)
    ELSE IF TypeOf(obj) = "object" /\ obj.ownToString = "getterThrows" THEN Throw(FALSE, 1)
    ELSE Ret(FALSE)

\* typeof obj === 'object' && !isArray && !isDate && !isRegExp &&
\* !hasCustomToStringTag && !throwsOnToString, evaluated left to right and
\* stopping at the first false operand.
isPlainObject(obj) ==
    IF TypeOf(obj) # "object" \/ isArray(obj) \/ isDate(obj) \/ isRegExp(obj) THEN Ret(FALSE)
    ELSE LET t == hasCustomToStringTag(obj) IN
         IF t.threw THEN t
         ELSE IF t.ret THEN Ret(FALSE)
         ELSE LET x == throwsOnToString(obj) IN
              IF x.threw THEN x ELSE RetAfter(~x.ret, x.calls)

getObjectLabelValue_tagFirst(obj) ==
    LET t == hasCustomToStringTag(obj) IN
    IF t.threw THEN Throw("", 0)
    ELSE IF t.ret THEN Ret("custom Symbol.toStringTag")
    ELSE IF isArray(obj) THEN Ret("array")
    ELSE IF isDate(obj) THEN Ret("Date")
    ELSE IF isRegExp(obj) THEN Ret("RegExp")
    ELSE LET x == throwsOnToString(obj) IN
         IF x.threw THEN Throw("", x.calls)
         ELSE IF x.ret THEN RetAfter("throws on toString", x.calls)
         ELSE RetAfter("plain object", x.calls)

getObjectLabelValue(obj) ==
    IF isArray(obj) THEN Ret("array")
    ELSE IF isDate(obj) THEN Ret("Date")
    ELSE IF isRegExp(obj) THEN Ret("RegExp")
    ELSE LET t == hasCustomToStringTag(obj) IN
         IF t.threw THEN Throw("", 0)
         ELSE IF t.ret THEN Ret("custom Symbol.toStringTag")
         ELSE LET x == throwsOnToString(obj) IN
              IF x.threw THEN Throw("", x.calls)
              ELSE IF x.ret THEN RetAfter("throws on toString", x.calls)
              ELSE LET p == isPlainObject(obj) IN
                   IF p.threw THEN Throw("", x.calls + p.calls)
                   ELSE IF p.ret THEN RetAfter("plain object", x.calls + p.calls)
                   ELSE RetAfter("object", x.calls + p.calls)

getObjectExpectedValue_falseWhenThrows(obj) ==
    IF isArray(obj) \/ isDate(obj) \/ isRegExp(obj) THEN Ret(TRUE)
    ELSE LET t == hasCustomToStringTag(obj) IN
         IF t.threw THEN Throw(FALSE, 0)
         ELSE IF t.ret THEN Ret(TRUE)
         ELSE LET x == throwsOnToString(obj) IN
              IF x.threw THEN Throw(FALSE, x.calls) ELSE RetAfter(~x.ret, x.calls)

getObjectExpectedValue(obj) ==
    IF isArray(obj) THEN Ret(TRUE)
    ELSE IF isDate(obj) THEN Ret(TRUE)
    ELSE IF isRegExp(obj) THEN Ret(TRUE)
    ELSE LET t == hasCustomToStringTag(obj) IN
         IF t.threw THEN Throw(FALSE, 0)
         ELSE IF t.ret THEN Ret(TRUE)
         ELSE LET x == throwsOnToString(obj) IN
              IF x.threw THEN Throw(FALSE, x.calls)
              ELSE IF x.ret THEN RetAfter(TRUE, x.calls)
              ELSE LET p == isPlainObject(obj) IN
                   IF p.threw THEN Throw(FALSE, x.calls + p.calls)
                   ELSE IF p.ret THEN RetAfter(TRUE, x.calls + p.calls)
                   ELSE RetAfter(FALSE, x.calls + p.calls)

\* ---------------------------------------------- object-array helpers
\* A record is the sequence of its own properties [k, v] in insertion
\* order; an array is the sequence of its elements.
Prop(k, v) == [k |-> k, v |-> v]
Keys(rec) == {rec[i].k : i \in 1..Len(rec)}
Get(rec, k) == rec[CHOOSE i \in 1..Len(rec) : rec[i].k = k].v

Min(a, b) == IF a < b THEN a ELSE b

\* Assigning property k of a record: an existing property keeps its place,
\* a new one is added last.
SetProp(rec, k, v) ==
    IF k \in Keys(rec)
    THEN [i \in 1..Len(rec) |-> IF rec[i].k = k THEN Prop(k, v) ELSE rec[i]]
    ELSE Append(rec, Prop(k, v))

\* { ...target, ...source }: the own properties of source copied over
\* those of target, in source order.
RECURSIVE Spread(_, _)
Spread(target, source) ==
    IF source = <<>> THEN target
    ELSE Spread(SetProp(target, Head(source).k, Head(source).v), Tail(source))

toObjectArray_reversed(propertyName, values) ==
    [i \in 1..Len(values) |-> <<Prop(propertyName, values[Len(values) + 1 - i])>>]

toObjectArray(propertyName, values) ==
    [i \in 1..Len(values) |-> <<Prop(propertyName, values[i])>>]

toInputObjectArray(values) == toObjectArray("input", values)
toLabelObjectArray(values) == toObjectArray("label", values)
toExpectedObjectArray(values) == toObjectArray("expected", values)

addObjectArrays_firstWins(arr1, arr2) ==
    LET minLength == Min(Len(arr1), Len(arr2)) IN
    [i \in 1..minLength |-> Spread(Spread(<<>>, arr2[i]), arr1[i])]

addObjectArrays(arr1, arr2) ==
    LET minLength == Min(Len(arr1), Len(arr2)) IN
    [i \in 1..minLength |-> Spread(Spread(<<>>, arr1[i]), arr2[i])]

toNameObjectArray(values) == toObjectArray("name", values)
toValueObjectArray(values) == toObjectArray("value", values)
toKeyObjectArray(values) == toObjectArray("key", values)
toOptionsObjectArray(values) == toObjectArray("options", values)
toDefaultValueObjectArray(values) == toObjectArray("defaultValue", values)

\* [value]
toArray(value) == <<value>>

\* arr[0]: undefined when the array has no element.
fromArray(arr) == IF Len(arr) = 0 THEN Undefined ELSE arr[1]

\* ------------------------------------------------------------ fixtures
\* The module constants of RadioGroupInput.fixtures.ts, as the expressions
\* that compute them when the module is loaded.
radioGroupInput ==
    fromArray(
        addObjectArrays(
            addObjectArrays(
                addObjectArrays(toNameObjectArray(<<Str("radios")>>), toKeyObjectArray(<<Str("radios")>>)),
                toOptionsObjectArray(toArray(addObjectArrays(
                    toLabelObjectArray(<<Str("Radio 1"), Str("Radio 2"), Str("Radio 3")>>),
                    toValueObjectArray(<<Str("1"), Str("2"), Str("3")>>))))),
            toDefaultValueObjectArray(<<Str("")>>)))

radioGroupInputMultiple ==
    fromArray(
        addObjectArrays(
            addObjectArrays(
                addObjectArrays(toNameObjectArray(<<Str("letters")>>), toKeyObjectArray(<<Str("letters")>>)),
                toOptionsObjectArray(toArray(addObjectArrays(
                    toLabelObjectArray(<<Str("A"), Str("B"), Str("C")>>),
                    toValueObjectArray(<<Str("A"), Str("B"), Str("C")>>))))),
            toDefaultValueObjectArray(<<Str("B")>>)))

radioGroupInputPreselected ==
    fromArray(
        addObjectArrays(
            addObjectArrays(
                addObjectArrays(toNameObjectArray(<<Str("numbers")>>), toKeyObjectArray(<<Str("numbers")>>)),
                toOptionsObjectArray(toArray(addObjectArrays(
                    toLabelObjectArray(<<Str("One"), Str("Two"), Str("Three")>>),
                    toValueObjectArray(<<Str("1"), Str("2"), Str("3")>>))))),
            toDefaultValueObjectArray(<<Str("2")>>)))

radioGroupInputEmptyOptions ==
    fromArray(
        addObjectArrays(
            addObjectArrays(
                addObjectArrays(toNameObjectArray(<<Str("empty-radio")>>), toKeyObjectArray(<<Str("empty-radio")>>)),
                toOptionsObjectArray(<<>>)),
            toDefaultValueObjectArray(<<Str("")>>)))

FixtureNames ==
    {"radioGroupInput", "radioGroupInputMultiple", "radioGroupInputPreselected", "radioGroupInputEmptyOptions"}

Fixture(name) ==
    CASE name = "radioGroupInput" -> radioGroupInput
      [] name = "radioGroupInputMultiple" -> radioGroupInputMultiple
      [] name = "radioGroupInputPreselected" -> radioGroupInputPreselected
      [] name = "radioGroupInputEmptyOptions" -> radioGroupInputEmptyOptions

\* ----------------------------------------------------------- component
\* Reading a property of a record: undefined when the record has none.
Field(rec, k) == IF k \in Keys(rec) THEN Get(rec, k) ELSE Undefined

\* What the component hands to RadioGroup.Root and, per option, to
\* RadioGroup.Item. Destructuring props.input throws when input is
\* undefined; options?.map yields no item when options is undefined or null.
NoRoot == [key |-> Undefined, defaultValue |-> "", name |-> Undefined]

RadioGroupInput_labelAsValue(input) ==
    IF input = Undefined \/ input = Null
    THEN [ret |-> [root |-> NoRoot, items |-> <<>>], threw |-> TRUE, calls |-> 0]
    ELSE LET options == Field(input, "options")
             d == String(Field(input, "defaultValue"))
             items == IF options = Undefined \/ options = Null THEN <<>>
                      ELSE [i \in 1..Len(options) |->
                               [key |-> String(Field(options[i], "value")).ret,
                                value |-> Field(options[i], "label").sub,
                                children |-> Field(options[i], "label")]]
         IN [ret |-> [root |-> [key |-> Field(input, "key"), defaultValue |-> d.ret, name |-> Field(input, "name")],
                      items |-> items],
             threw |-> d.threw, calls |-> 0]

RadioGroupInput(input) ==
    IF input = Undefined \/ input = Null
    THEN [ret |-> [root |-> NoRoot, items |-> <<>>], threw |-> TRUE, calls |-> 0]
    ELSE LET options == Field(input, "options")
             d == String(Field(input, "defaultValue"))
             items == IF options = Undefined \/ options = Null THEN <<>>
                      ELSE [i \in 1..Len(options) |->
                               [key |-> String(Field(options[i], "value")).ret,
                                value |-> String(Field(options[i], "value")).ret,
                                children |-> Field(options[i], "label")]]
         IN [ret |-> [root |-> [key |-> Field(input, "key"), defaultValue |-> d.ret, name |-> Field(input, "name")],
                      items |-> items],
             threw |-> d.threw \/ (options # Undefined /\ options # Null
                                     /\ \E i \in 1..Len(options) : String(Field(options[i], "value")).threw),
             calls |-> 0]

\* The radio group the component mounts: RadioGroup.Root is given
\* defaultValue and no value, so it keeps the current value itself,
\* starting from defaultValue; an item shows as checked when its value is
\* the group's current value, and a click on an item makes its value the
\* current one.
Unmounted == [mounted |-> FALSE, value |-> "", clicked |-> 0]
Mounted(rendered) == [mounted |-> TRUE, value |-> rendered.root.defaultValue, clicked |-> 0]
Checked(rendered, group) == {i \in 1..Len(rendered.items) : rendered.items[i].value = group.value}

\* ---------------------------------------------------------------- heap
\* The heap holds the arrays and records a caller holds: heap[r] is the
\* object at address r. origin names the function that allocated it.
ArrayObject(origin, elems) == [kind |-> "array", origin |-> origin, elems |-> elems, props |-> <<>>]
RecordObject(origin, props) == [kind |-> "record", origin |-> origin, elems |-> <<>>, props |-> props]

\* Evaluating an array literal: a new array at a new address.
NewArray(h, origin, elems) ==
    [heap |-> Append(h, ArrayObject(origin, elems)), ref |-> Len(h) + 1, threw |-> FALSE]

\* Array.from({ length }, (_, i) => ({ ... })): new records and a new array
\* of them.
NewRecordArray(h, origin, recs) ==
    LET n == Len(recs)
        withRecs == h \o [i \in 1..n |-> RecordObject(origin, recs[i])]
    IN [heap |-> Append(withRecs, ArrayObject(origin, [i \in 1..n |-> Ref(Len(h) + i)])),
        ref |-> Len(h) + n + 1, threw |-> FALSE]

Thrown(h) == [heap |-> h, ref |-> 0, threw |-> TRUE]

Elems(g) == g.heap[g.ref].elems

\* The lowest address of an array allocated by origin, 0 when there is none.
Allocated(h, origin) == {r \in 1..Len(h) : h[r].kind = "array" /\ h[r].origin = origin}
FirstAllocated(h, origin) == CHOOSE r \in Allocated(h, origin) : \A q \in Allocated(h, origin) : r <= q

\* ------------------------------------------------------- exemplar sets
getAllPrimitiveValues_cached(h) ==
    IF Allocated(h, "getAllPrimitiveValues") # {}
    THEN [heap |-> h, ref |-> FirstAllocated(h, "getAllPrimitiveValues"), threw |-> FALSE]
    ELSE NewArray(h, "getAllPrimitiveValues",
                  <<Str("string"), Num("42"), Bool("true"), Undefined, Null, Sym("sym"), BigInt("123")>>)

getAllPrimitiveValues_noBigInt(h) ==
    NewArray(h, "getAllPrimitiveValues",
             <<Str("string"), Num("42"), Bool("true"), Undefined, Null, Sym("sym")>>)

getAllPrimitiveValues(h) ==
    NewArray(h, "getAllPrimitiveValues",
             <<Str("string"), Num("42"), Bool("true"), Undefined, Null, Sym("sym"), BigInt("123")>>)

getAllPrimitiveLabelValues(h) ==
    LET values == Elems(getAllPrimitiveValues(h)) IN
    Ret([i \in 1..Len(values) |-> Str(getPrimitiveLabelValue(values[i]))])

getAllPrimitiveExpectedValues(h) ==
    LET values == Elems(getAllPrimitiveValues(h)) IN
    Ret([i \in 1..Len(values) |-> JSBool(getPrimitiveExpectedValue(values[i]))])

\* An arrow function that is an element of an array literal has the name "".
getAllFunctionValues(h) ==
    NewArray(h, "getAllFunctionValues", <<Fn(""), Fn("namedFunc")>>)

getAllFunctionLabelValues(h) ==
    LET values == Elems(getAllFunctionValues(h)) IN
    Ret([i \in 1..Len(values) |-> Str(getFunctionLabelValue(values[i]))])

getAllFunctionExpectedValues(h) ==
    LET values == Elems(getAllFunctionValues(h)) IN
    Ret([i \in 1..Len(values) |-> JSBool(getFunctionExpectedValue(values[i]))])

getAllObjectValues(h) ==
    NewArray(h, "getAllObjectValues",
             <<Obj("Object", FALSE, "absent"), Obj("Array", FALSE, "absent"),
               Obj("Date", FALSE, "absent"), Obj("RegExp", FALSE, "absent"),
               Obj("Object", TRUE, "absent"), Obj("Object", FALSE, "throws")>>)

\* values.map(f): f is applied to the elements in order and the first
\* exception leaves the map.
getAllObjectLabelValues(h) ==
    LET values == Elems(getAllObjectValues(h))
        outs == [i \in 1..Len(values) |-> getObjectLabelValue(values[i])]
    IN [ret |-> [i \in 1..Len(values) |-> Str(outs[i].ret)],
        threw |-> \E i \in 1..Len(values) : outs[i].threw,
        calls |-> 0]

getAllObjectExpectedValues(h) ==
    LET values == Elems(getAllObjectValues(h))
        outs == [i \in 1..Len(values) |-> getObjectExpectedValue(values[i])]
    IN [ret |-> [i \in 1..Len(values) |-> JSBool(outs[i].ret)],
        threw |-> \E i \in 1..Len(values) : outs[i].threw,
        calls |-> 0]

\* ------------------------------------------------------------ builders
getAllPrimitiveInputLabelExpectedObjects(h) ==
    LET inputs == toInputObjectArray(Elems(getAllPrimitiveValues(h)))
        labels == getAllPrimitiveLabelValues(h)
        expected == getAllPrimitiveExpectedValues(h)
    IN IF labels.threw \/ expected.threw THEN Thrown(h)
       ELSE NewRecordArray(h, "getAllPrimitiveInputLabelExpectedObjects",
                addObjectArrays(addObjectArrays(inputs, toLabelObjectArray(labels.ret)),
                                toExpectedObjectArray(expected.ret)))

getAllFunctionInputLabelExpectedObjects(h) ==
    LET inputs == toInputObjectArray(Elems(getAllFunctionValues(h)))
        labels == getAllFunctionLabelValues(h)
        expected == getAllFunctionExpectedValues(h)
    IN IF labels.threw \/ expected.threw THEN Thrown(h)
       ELSE NewRecordArray(h, "getAllFunctionInputLabelExpectedObjects",
                addObjectArrays(addObjectArrays(inputs, toLabelObjectArray(labels.ret)),
                                toExpectedObjectArray(expected.ret)))

getAllObjectInputLabelExpectedObjects(h) ==
    LET inputs == toInputObjectArray(Elems(getAllObjectValues(h)))
        labels == getAllObjectLabelValues(h)
        expected == getAllObjectExpectedValues(h)
    IN IF labels.threw \/ expected.threw THEN Thrown(h)
       ELSE NewRecordArray(h, "getAllObjectInputLabelExpectedObjects",
                addObjectArrays(addObjectArrays(inputs, toLabelObjectArray(labels.ret)),
                                toExpectedObjectArray(expected.ret)))

Families == {"primitive", "function", "object"}

Generator(family, h) ==
    CASE family = "primitive" -> getAllPrimitiveValues(h)
      [] family = "function" -> getAllFunctionValues(h)
      [] family = "object" -> getAllObjectValues(h)

Builder(family, h) ==
    CASE family = "primitive" -> getAllPrimitiveInputLabelExpectedObjects(h)
      [] family = "function" -> getAllFunctionInputLabelExpectedObjects(h)
      [] family = "object" -> getAllObjectInputLabelExpectedObjects(h)

\* The records of the array at address r, read through the heap.
Records(h, r) == [i \in 1..Len(h[r].elems) |-> h[h[r].elems[i].ref].props]

\* --------------------------------------------------------- table tests
\* cases.map((obj) => ({ ...obj, expected: false }))
overrideExpectedFalse(cases) ==
    [i \in 1..Len(cases) |-> SetProp(Spread(<<>>, cases[i]), "expected", JSBool(FALSE))]

Predicate(name, value) ==
    IF name = "IsValueStringable" THEN IsValueStringable(value) ELSE IsValuePrimitiveStringable(value)

\* expect(predicate(input)).toBe(expected) for every case.
runTableTest(name, cases) ==
    \A i \in 1..Len(cases) :
        LET out == Predicate(name, Get(cases[i], "input")) IN
        ~out.threw /\ JSBool(out.ret) = Get(cases[i], "expected")

runIsValueStringableTableTest(cases) == runTableTest("IsValueStringable", cases)
runIsValuePrimitiveStringableTableTest(cases) == runTableTest("IsValuePrimitiveStringable", cases)

\* The six tests of the file: the builder's records of a family, with
\* expected overridden for the object and function families under
\* IsValuePrimitiveStringable.
TestCases(name, family, base) ==
    IF name = "IsValuePrimitiveStringable" /\ family # "primitive"
    THEN overrideExpectedFalse(base)
    ELSE base

\* ------------------------------------------------------- state machine
PredicateNames == {"IsValueStringable", "IsValuePrimitiveStringable"}

\* Records and arrays handed to addObjectArrays: arr1 carries 1s and arr2
\* carries 2s, over the fields a and b in either order.
SmallRecords(v) ==
    {<<>>} \cup {<<Prop(k, v)>> : k \in {"a", "b"}}
           \cup {<<Prop("a", v), Prop("b", v)>>, <<Prop("b", v), Prop("a", v)>>}

SmallArrays(v) == UNION {[1..n -> SmallRecords(v)] : n \in 0..MaxLen}

Pending(op, arg) == [op |-> op, arg |-> arg, done |-> FALSE, out |-> Ret(FALSE)]
Done(op, arg, out) == [op |-> op, arg |-> arg, done |-> TRUE, out |-> out]

MutationValues == {Str("mutated"), Null}

\* Configurations handed to the component: a default value and options
\* whose values String() maps to "1" or "2".
OptionValues == {Str("1"), Num("1"), Str("2")}
OptionLabels == {Str("A"), Str("B")}
DefaultValues == {Str(""), Str("1"), Num("1"), Undefined}
OptionRecords == {<<Prop("label", l), Prop("value", v)>> : l \in OptionLabels, v \in OptionValues}
OptionArrays == UNION {[1..n -> OptionRecords] : n \in 0..MaxLen}

InputRecord(key, d, options) ==
    <<Prop("name", Str("radios")), Prop("key", key), Prop("defaultValue", d), Prop("options", options)>>

InputsWithOptions ==
    {InputRecord(key, d, options) :
        key \in {Str("radios"), Undefined}, d \in DefaultValues, options \in OptionArrays}

InputsWithoutOptions ==
    {InputRecord(key, d, Undefined) : key \in {Str("radios"), Undefined}, d \in DefaultValues}

\* The inputs of the calls repeated in a sequence of calls.
CallValues == {Str("string"), Num("NaN"), Null, Obj("Object", FALSE, "throws"), Fn("")}

\* One call of a pure function, or one table test, on an input drawn at
\* the start.
Init ==
    /\ heap = <<>>
    /\ nsteps = 0
    /\ history = <<>>
    /\ radio = Unmounted
    /\ \/ \E op \in PredicateNames \cup {"isNumber", "isPrimitive", "String", "getPrimitiveExpectedValue",
                                         "getObjectLabelValue", "getObjectExpectedValue"}, v \in Values :
              result = Pending(op, v)
       \/ \E op \in {"getFunctionLabelValue", "getFunctionExpectedValue"}, fn \in FunctionValues :
              result = Pending(op, fn)
       \/ \E family \in Families : result = Pending("labels", family)
       \/ \E name \in FixtureNames : result = Pending("fixture", name)
       \/ \E input \in InputsWithOptions : result = Pending("RadioGroupInput", input)
       \/ \E input \in InputsWithoutOptions : result = Pending("RadioGroupInput", input)
       \/ \E name \in FixtureNames : result = Pending("RadioGroupInput", Fixture(name))
       \/ \E arr1 \in SmallArrays(Num("1")), arr2 \in SmallArrays(Num("2")) :
              result = Pending("addObjectArrays", <<arr1, arr2>>)
       \/ \E name \in PredicateNames, family \in Families :
              result = Pending("test", <<name, family>>)

CallIsValueStringable ==
    /\ ~result.done /\ result.op = "IsValueStringable"
    /\ result' = Done(result.op, result.arg, IsValueStringable(result.arg))
    /\ UNCHANGED <<heap, nsteps, history, radio>>

CallIsValuePrimitiveStringable ==
    /\ ~result.done /\ result.op = "IsValuePrimitiveStringable"
    /\ result' = Done(result.op, result.arg, IsValuePrimitiveStringable(result.arg))
    /\ UNCHANGED <<heap, nsteps, history, radio>>

CallIsNumber ==
    /\ ~result.done /\ result.op = "isNumber"
    /\ result' = Done(result.op, result.arg, Ret(isNumber(result.arg)))
    /\ UNCHANGED <<heap, nsteps, history, radio>>

CallIsPrimitive ==
    /\ ~result.done /\ result.op = "isPrimitive"
    /\ result' = Done(result.op, result.arg, Ret(isPrimitive(result.arg)))
    /\ UNCHANGED <<heap, nsteps, history, radio>>

CallString ==
    /\ ~result.done /\ result.op = "String"
    /\ result' = Done(result.op, result.arg, String(result.arg))
    /\ UNCHANGED <<heap, nsteps, history, radio>>

CallAddObjectArrays ==
    /\ ~result.done /\ result.op = "addObjectArrays"
    /\ result' = Done(result.op, result.arg, Ret(addObjectArrays(result.arg[1], result.arg[2])))
    /\ UNCHANGED <<heap, nsteps, history, radio>>

\* One test of the test file, run on the module's fresh state: the outcome
\* keeps the builder's records (base) and the cases handed to the runner.
RunTest ==
    /\ ~result.done /\ result.op = "test"
    /\ LET name == result.arg[1]
           family == result.arg[2]
           b == Builder(family, heap)
           base == Records(b.heap, b.ref)
           cases == TestCases(name, family, base)
       IN result' = Done("test", result.arg,
                         Ret([passed |-> runTableTest(name, cases), cases |-> cases, base |-> base]))
    /\ UNCHANGED <<heap, nsteps, history, radio>>

CallGetPrimitiveExpectedValue ==
    /\ ~result.done /\ result.op = "getPrimitiveExpectedValue"
    /\ result' = Done(result.op, result.arg, Ret(getPrimitiveExpectedValue(result.arg)))
    /\ UNCHANGED <<heap, nsteps, history, radio>>

CallGetFunctionLabelValue ==
    /\ ~result.done /\ result.op = "getFunctionLabelValue"
    /\ result' = Done(result.op, result.arg, Ret(getFunctionLabelValue(result.arg)))
    /\ UNCHANGED <<heap, nsteps, history, radio>>

CallGetFunctionExpectedValue ==
    /\ ~result.done /\ result.op = "getFunctionExpectedValue"
    /\ result' = Done(result.op, result.arg, Ret(getFunctionExpectedValue(result.arg)))
    /\ UNCHANGED <<heap, nsteps, history, radio>>

CallGetObjectLabelValue ==
    /\ ~result.done /\ result.op = "getObjectLabelValue"
    /\ result' = Done(result.op, result.arg, getObjectLabelValue(result.arg))
    /\ UNCHANGED <<heap, nsteps, history, radio>>

CallGetObjectExpectedValue ==
    /\ ~result.done /\ result.op = "getObjectExpectedValue"
    /\ result' = Done(result.op, result.arg, getObjectExpectedValue(result.arg))
    /\ UNCHANGED <<heap, nsteps, history, radio>>

\* getAllPrimitiveLabelValues(), getAllFunctionLabelValues() or
\* getAllObjectLabelValues().
LabelValues(family, h) ==
    CASE family = "primitive" -> getAllPrimitiveLabelValues(h)
      [] family = "function" -> getAllFunctionLabelValues(h)
      [] family = "object" -> getAllObjectLabelValues(h)

CallLabelValues ==
    /\ ~result.done /\ result.op = "labels"
    /\ result' = Done(result.op, result.arg, LabelValues(result.arg, heap))
    /\ UNCHANGED <<heap, nsteps, history, radio>>

\* Loading RadioGroupInput.fixtures.ts evaluates the constant.
EvalFixture ==
    /\ ~result.done /\ result.op = "fixture"
    /\ result' = Done(result.op, result.arg, Ret(Fixture(result.arg)))
    /\ UNCHANGED <<heap, nsteps, history, radio>>

\* Rendering the component mounts the radio group unless the render threw.
CallRadioGroupInput ==
    /\ ~result.done /\ result.op = "RadioGroupInput"
    /\ LET out == RadioGroupInput(result.arg) IN
         /\ result' = Done(result.op, result.arg, out)
         /\ radio' = IF out.threw THEN Unmounted ELSE Mounted(out.ret)
    /\ UNCHANGED <<heap, nsteps, history>>

Next ==
    \/ CallIsPrimitive
    \/ CallGetPrimitiveExpectedValue
    \/ CallGetFunctionLabelValue
    \/ CallGetFunctionExpectedValue
    \/ CallGetObjectLabelValue
    \/ CallGetObjectExpectedValue
    \/ CallLabelValues
    \/ EvalFixture
    \/ CallRadioGroupInput
    \/ CallIsValueStringable
    \/ CallIsValuePrimitiveStringable
    \/ CallIsNumber
    \/ CallString
    \/ CallAddObjectArrays
    \/ RunTest

Spec == Init /\ [][Next]_vars

\* Calls of the generators and the builders, interleaved with a caller's
\* mutations of the arrays and records it was handed.
InitHeap ==
    /\ heap = <<>>
    /\ nsteps = 0
    /\ history = <<>>
    /\ radio = Unmounted
    /\ result = Done("none", "none", Ret(0))

CallGenerator(family) ==
    /\ nsteps < MaxSteps
    /\ LET g == Generator(family, heap) IN
         /\ heap' = g.heap
         /\ result' = Done("generator", family, [ret |-> g.ref, threw |-> g.threw, calls |-> 0])
    /\ nsteps' = nsteps + 1
    /\ UNCHANGED <<history, radio>>

CallBuilder(family) ==
    /\ nsteps < MaxSteps
    /\ LET b == Builder(family, heap) IN
         /\ heap' = b.heap
         /\ result' = Done("builder", family, [ret |-> b.ref, threw |-> b.threw, calls |-> 0])
    /\ nsteps' = nsteps + 1
    /\ UNCHANGED <<history, radio>>

Arrays(h) == {r \in 1..Len(h) : h[r].kind = "array"}
RecordRefs(h) == {r \in 1..Len(h) : h[r].kind = "record"}

Mutated(out) == Done("mutate", "none", Ret(out))

ArrayPush(r, v) ==
    /\ nsteps < MaxSteps
    /\ heap' = [heap EXCEPT ![r].elems = Append(@, v)]
    /\ result' = Mutated(0)
    /\ nsteps' = nsteps + 1
    /\ UNCHANGED <<history, radio>>

ArrayPop(r) ==
    /\ nsteps < MaxSteps
    /\ heap[r].elems # <<>>
    /\ heap' = [heap EXCEPT ![r].elems = SubSeq(@, 1, Len(@) - 1)]
    /\ result' = Mutated(0)
    /\ nsteps' = nsteps + 1
    /\ UNCHANGED <<history, radio>>

ArraySet(r, i, v) ==
    /\ nsteps < MaxSteps
    /\ heap' = [heap EXCEPT ![r].elems[i] = v]
    /\ result' = Mutated(0)
    /\ nsteps' = nsteps + 1
    /\ UNCHANGED <<history, radio>>

RecordSet(r, k, v) ==
    /\ nsteps < MaxSteps
    /\ heap' = [heap EXCEPT ![r].props = SetProp(@, k, v)]
    /\ result' = Mutated(0)
    /\ nsteps' = nsteps + 1
    /\ UNCHANGED <<history, radio>>

NextHeap ==
    \/ \E family \in Families : CallGenerator(family)
    \/ \E family \in Families : CallBuilder(family)
    \/ \E r \in Arrays(heap), v \in MutationValues : ArrayPush(r, v)
    \/ \E r \in Arrays(heap) : ArrayPop(r)
    \/ \E r \in Arrays(heap), v \in MutationValues : \E i \in 1..Len(heap[r].elems) : ArraySet(r, i, v)
    \/ \E r \in RecordRefs(heap), v \in MutationValues : \E k \in Keys(heap[r].props) : RecordSet(r, k, v)

SpecHeap == InitHeap /\ [][NextHeap]_vars

\* A sequence of predicate calls, with calls of the generators and the
\* builders in between; history keeps every predicate call, its outcome
\* and its position in the sequence.
CallPredicate(name, value) ==
    /\ nsteps < MaxSteps
    /\ LET out == Predicate(name, value) IN
         /\ result' = Done(name, value, out)
         /\ history' = Append(history, [name |-> name, value |-> value, out |-> out, step |-> nsteps + 1])
    /\ nsteps' = nsteps + 1
    /\ UNCHANGED <<heap, radio>>

NextCalls ==
    \/ \E name \in PredicateNames, value \in CallValues : CallPredicate(name, value)
    \/ \E family \in Families : CallGenerator(family)
    \/ \E family \in Families : CallBuilder(family)

SpecCalls == InitHeap /\ [][NextCalls]_vars

\* The stories: the component is rendered with a configuration whose option
\* values are pairwise distinct, then its items are clicked in any order.
DistinctValues(input) ==
    LET options == Field(input, "options") IN
    options # Undefined =>
        \A i, j \in 1..Len(options) : i # j => Field(options[i], "value") # Field(options[j], "value")

\* The fixtures the stories Default, MultipleOptions and PreselectedValue
\* render.
StoryFixtureNames == {"radioGroupInput", "radioGroupInputMultiple", "radioGroupInputPreselected"}

InitRadio ==
    /\ heap = <<>>
    /\ nsteps = 0
    /\ history = <<>>
    /\ radio = Unmounted
    /\ \/ \E input \in InputsWithOptions :
              DistinctValues(input) /\ result = Pending("RadioGroupInput", input)
       \/ \E input \in InputsWithoutOptions : result = Pending("RadioGroupInput", input)
       \/ \E name \in StoryFixtureNames : result = Pending("RadioGroupInput", Fixture(name))

\* The items on the page: canvas.getAllByRole('radio').
Items == IF radio.mounted THEN result.out.ret.items ELSE <<>>

\* userEvent.click(radioOptions[i])
Click(i) ==
    /\ radio.mounted
    /\ nsteps < MaxSteps
    /\ i \in 1..Len(Items)
    /\ radio' = [radio EXCEPT !.value = Items[i].value, !.clicked = i]
    /\ nsteps' = nsteps + 1
    /\ UNCHANGED <<heap, result, history>>

NextRadio ==
    \/ CallRadioGroupInput
    \/ \E i \in 1..Len(Items) : Click(i)

SpecRadio == InitRadio /\ [][NextRadio]_vars

\* The object-array helpers called on arrays the caller holds: arr1 with n1
\* records { a: 1, b: 1 } and arr2 with n2 records { b: 2 }. A helper reads
\* its arguments through the heap and allocates what it returns.
CallerArrays(n1, n2) ==
    NewRecordArray(
        NewRecordArray(<<>>, "caller", [i \in 1..n1 |-> <<Prop("a", Num("1")), Prop("b", Num("1"))>>]).heap,
        "caller", [i \in 1..n2 |-> <<Prop("b", Num("2"))>>])

\* Object.assign in place of the spread, and arr1's own records returned.
addObjectArraysOnHeap_inPlace(h, r1, r2) ==
    LET minLength == Min(Len(h[r1].elems), Len(h[r2].elems))
        targets == {h[r1].elems[i].ref : i \in 1..minLength}
        indexOf(r) == CHOOSE i \in 1..minLength : h[r1].elems[i].ref = r
        assigned == [r \in 1..Len(h) |->
                        IF r \in targets
                        THEN [h[r] EXCEPT !.props = Spread(@, h[h[r2].elems[indexOf(r)].ref].props)]
                        ELSE h[r]]
    IN NewArray(assigned, "addObjectArrays", SubSeq(h[r1].elems, 1, minLength))

addObjectArraysOnHeap(h, r1, r2) ==
    NewRecordArray(h, "addObjectArrays", addObjectArrays(Records(h, r1), Records(h, r2)))

\* values.map((value) => ({ [propertyName]: value }))
toObjectArrayOnHeap(h, propertyName, r) ==
    NewRecordArray(h, "toObjectArray", toObjectArray(propertyName, h[r].elems))

toArrayOnHeap(h, value) == NewArray(h, "toArray", toArray(value))

fromArrayOnHeap(h, r) == fromArray(h[r].elems)

HelperNames == {"addObjectArrays", "toObjectArray", "toArray", "fromArray"}

InitFrame ==
    /\ nsteps = 0
    /\ history = <<>>
    /\ radio = Unmounted
    /\ \E n1 \in 0..MaxLen, n2 \in 0..MaxLen, helper \in HelperNames :
          LET c == CallerArrays(n1, n2) IN
          /\ heap = c.heap
          /\ result = Pending(helper, <<n1 + 1, c.ref>>)

CallAddObjectArraysOnHeap ==
    /\ ~result.done /\ result.op = "addObjectArrays"
    /\ LET g == addObjectArraysOnHeap(heap, result.arg[1], result.arg[2]) IN
         /\ heap' = g.heap
         /\ result' = Done(result.op, result.arg, Ret(g.ref))
    /\ UNCHANGED <<nsteps, history, radio>>

CallToObjectArrayOnHeap ==
    /\ ~result.done /\ result.op = "toObjectArray"
    /\ LET g == toObjectArrayOnHeap(heap, "options", result.arg[1]) IN
         /\ heap' = g.heap
         /\ result' = Done(result.op, result.arg, Ret(g.ref))
    /\ UNCHANGED <<nsteps, history, radio>>

CallToArrayOnHeap ==
    /\ ~result.done /\ result.op = "toArray"
    /\ LET g == toArrayOnHeap(heap, Ref(result.arg[1])) IN
         /\ heap' = g.heap
         /\ result' = Done(result.op, result.arg, Ret(g.ref))
    /\ UNCHANGED <<nsteps, history, radio>>

CallFromArrayOnHeap ==
    /\ ~result.done /\ result.op = "fromArray"
    /\ result' = Done(result.op, result.arg, Ret(fromArrayOnHeap(heap, result.arg[1])))
    /\ UNCHANGED <<heap, nsteps, history, radio>>

\* The caller writes a property of a record of the array addObjectArrays
\* returned: result[i][k] = v.
MutateResult(i, k, v) ==
    /\ result.done /\ result.op = "addObjectArrays"
    /\ nsteps < MaxSteps
    /\ i \in 1..Len(heap[result.out.ret].elems)
    /\ heap' = [heap EXCEPT ![heap[result.out.ret].elems[i].ref].props = SetProp(@, k, v)]
    /\ nsteps' = nsteps + 1
    /\ UNCHANGED <<result, history, radio>>

NextFrame ==
    \/ CallAddObjectArraysOnHeap
    \/ CallToObjectArrayOnHeap
    \/ CallToArrayOnHeap
    \/ CallFromArrayOnHeap
    \/ \E i \in 1..MaxLen, k \in {"a", "b"}, v \in MutationValues : MutateResult(i, k, v)

SpecFrame == InitFrame /\ [][NextFrame]_vars

\* ============================================================== claims
IsCall(op) == result.done /\ result.op = op

\* C1: IsValueStringable(value) returns true for every input value,
\* whatever its runtime category; no input makes it return false.
C1_IsValueStringableAlwaysTrue ==
    IsCall("IsValueStringable") => (~result.out.threw /\ result.out.ret = TRUE)

C1_Witness ==
    /\ IsCall("IsValueStringable")
    /\ result.arg.typeof = "object" /\ result.arg.sub = "Object"
    /\ result.out.ret = TRUE

\* C2: IsValuePrimitiveStringable(value) returns true exactly when value
\* is a string, number, boolean, bigint, symbol, undefined or null, and
\* false for every non-null object and every function.
C2_PrimitiveExactly ==
    IsCall("IsValuePrimitiveStringable") =>
        /\ result.out.ret = (result.arg \in PrimitiveValues)
        /\ (result.arg \in ObjectValues \cup FunctionValues) => result.out.ret = FALSE

C2_Witness ==
    /\ IsCall("IsValuePrimitiveStringable")
    /\ result.arg = Null
    /\ result.out.ret = TRUE

\* C3: both predicates return a boolean without throwing for every input
\* and invoke no member of the input: an object whose toString throws is
\* classified, not executed.
C3_TotalAndInvokesNothing ==
    (result.done /\ result.op \in PredicateNames) =>
        /\ ~result.out.threw
        /\ result.out.calls = 0
        /\ result.out.ret \in BOOLEAN

C3_Witness ==
    /\ IsCall("IsValueStringable")
    /\ result.arg.ownToString = "throws"
    /\ ~result.out.threw /\ result.out.calls = 0

\* C4: whenever IsValueStringable(value) returns true, String(value) does
\* not throw, and it returns false only for a value that throws when
\* passed to String().
C4_TrueOnlyIfStringIsSafe ==
    IsCall("IsValueStringable") =>
        /\ result.out.ret = TRUE => ~String(result.arg).threw
        /\ result.out.ret = FALSE => String(result.arg).threw

\* The array a generator or builder call has just returned.
Returned == heap[result.out.ret]
ReturnedRecords == Records(heap, result.out.ret)
IsRecordArray(h, r) ==
    \A i \in 1..Len(h[r].elems) :
        /\ h[r].elems[i].ref \in 1..Len(h)
        /\ h[h[r].elems[i].ref].kind = "record"

\* C5: for every record produced by the three InputLabelExpected builders,
\* expected equals IsValueStringable(input).
C5_ExpectedAgreesWithPredicate ==
    IsCall("builder") =>
        /\ ~result.out.threw
        /\ IsRecordArray(heap, result.out.ret)
        /\ \A i \in 1..Len(ReturnedRecords) :
               Get(ReturnedRecords[i], "expected")
                   = JSBool(IsValueStringable(Get(ReturnedRecords[i], "input")).ret)

C5_Witness ==
    /\ IsCall("builder") /\ result.arg = "object"
    /\ \E i \in 1..Len(ReturnedRecords) :
           /\ Get(ReturnedRecords[i], "input").ownToString = "throws"
           /\ Get(ReturnedRecords[i], "expected") = JSBool(TRUE)

FamilySize(family) ==
    CASE family = "primitive" -> 7
      [] family = "function" -> 2
      [] family = "object" -> 6

\* C6: for every exemplar input of the three families,
\* IsValuePrimitiveStringable(input) is true iff the exemplar belongs to
\* the primitive family (7 true, 6 and 2 false); the test overrides only
\* expected to false, leaving input and label of every record unchanged.
C6_PrimitiveOnlyOnExemplars ==
    (IsCall("test") /\ result.arg[1] = "IsValuePrimitiveStringable") =>
        LET family == result.arg[2]
            base == result.out.ret.base
            cases == result.out.ret.cases
        IN /\ Len(base) = FamilySize(family)
           /\ Len(cases) = Len(base)
           /\ \A i \in 1..Len(base) :
                  /\ IsValuePrimitiveStringable(Get(base[i], "input")).ret = (family = "primitive")
                  /\ Keys(cases[i]) = Keys(base[i])
                  /\ Get(cases[i], "input") = Get(base[i], "input")
                  /\ Get(cases[i], "label") = Get(base[i], "label")
                  /\ Get(cases[i], "expected") = JSBool(family = "primitive")
           /\ result.out.ret.passed

C6_Witness ==
    /\ IsCall("test") /\ result.arg = <<"IsValuePrimitiveStringable", "object">>
    /\ Len(result.out.ret.cases) = 6
    /\ Get(result.out.ret.base[1], "expected") = JSBool(TRUE)
    /\ Get(result.out.ret.cases[1], "expected") = JSBool(FALSE)
    /\ result.out.ret.passed

\* C7: the three builders return arrays of length exactly 7, 2 and 6, and
\* every element is a record with exactly the fields input, label and
\* expected.
C7_BuilderShape ==
    IsCall("builder") =>
        /\ ~result.out.threw
        /\ Returned.kind = "array"
        /\ Len(Returned.elems) = FamilySize(result.arg)
        /\ IsRecordArray(heap, result.out.ret)
        /\ \A i \in 1..Len(ReturnedRecords) :
               /\ Keys(ReturnedRecords[i]) = {"input", "label", "expected"}
               /\ Len(ReturnedRecords[i]) = 3

C7_Witness ==
    /\ IsCall("builder") /\ result.arg = "primitive"
    /\ Len(Returned.elems) = 7
    /\ Keys(ReturnedRecords[7]) = {"input", "label", "expected"}

\* C8: IsValueStringable(NaN) is true although isNumber(NaN) is false: the
\* predicate does not share isNumber's NaN exclusion.
C8_NaNStringableNotNumber ==
    /\ (IsCall("IsValueStringable") /\ result.arg = Num("NaN")) => result.out.ret = TRUE
    /\ (IsCall("isNumber") /\ result.arg = Num("NaN")) => result.out.ret = FALSE

C8_Witness ==
    /\ IsCall("IsValueStringable") /\ result.arg = Num("NaN")
    /\ result.out.ret = TRUE
    /\ ~isNumber(result.arg)

\* C9: addObjectArrays(arr1, arr2) returns an array of length
\* min(arr1.length, arr2.length) whose element i holds exactly the union
\* of the fields of arr1[i] and arr2[i], a field present in both taking
\* the value from arr2[i]; elements beyond the shorter array are dropped
\* without error.
C9_AddObjectArraysMerges ==
    IsCall("addObjectArrays") =>
        LET arr1 == result.arg[1]
            arr2 == result.arg[2]
            merged == result.out.ret
        IN /\ ~result.out.threw
           /\ Len(merged) <= Len(arr1) /\ Len(merged) <= Len(arr2)
           /\ Len(merged) = Len(arr1) \/ Len(merged) = Len(arr2)
           /\ \A i \in 1..Len(merged) :
                  /\ Keys(merged[i]) = Keys(arr1[i]) \cup Keys(arr2[i])
                  /\ Len(merged[i]) = Cardinality(Keys(merged[i]))
                  /\ \A k \in Keys(arr2[i]) : Get(merged[i], k) = Get(arr2[i], k)
                  /\ \A k \in Keys(arr1[i]) \ Keys(arr2[i]) : Get(merged[i], k) = Get(arr1[i], k)

C9_Witness ==
    /\ IsCall("addObjectArrays")
    /\ Len(result.arg[1]) = 2 /\ Len(result.arg[2]) = 1
    /\ Keys(result.arg[1][1]) = {"a", "b"} /\ Keys(result.arg[2][1]) = {"a"}
    /\ Len(result.out.ret) = 1
    /\ Get(result.out.ret[1], "a") = Num("2") /\ Get(result.out.ret[1], "b") = Num("1")

\* The exemplar set of each family, as the specification enumerates it.
ExemplarSet(family) ==
    CASE family = "primitive" ->
            <<Str("string"), Num("42"), Bool("true"), Undefined, Null, Sym("sym"), BigInt("123")>>
      [] family = "function" -> <<Fn(""), Fn("namedFunc")>>
      [] family = "object" ->
            <<Obj("Object", FALSE, "absent"), Obj("Array", FALSE, "absent"),
              Obj("Date", FALSE, "absent"), Obj("RegExp", FALSE, "absent"),
              Obj("Object", TRUE, "absent"), Obj("Object", FALSE, "throws")>>

\* C10: every call of a generator or builder constructs a fresh array:
\* after any calls interleaved with mutations of previously returned
\* arrays or records, a later call still returns the complete, unmodified
\* exemplar set of its family.
C10_FreshCompleteExemplars ==
    /\ IsCall("generator") =>
           /\ result.out.ret = Len(heap)
           /\ Returned.elems = ExemplarSet(result.arg)
    /\ IsCall("builder") =>
           /\ result.out.ret = Len(heap)
           /\ IsRecordArray(heap, result.out.ret)
           /\ Len(ReturnedRecords) = Len(ExemplarSet(result.arg))
           /\ \A i \in 1..Len(ReturnedRecords) :
                  /\ Returned.elems[i].ref = Len(heap) - Len(ReturnedRecords) - 1 + i
                  /\ Keys(ReturnedRecords[i]) = {"input", "label", "expected"}
                  /\ Get(ReturnedRecords[i], "input") = ExemplarSet(result.arg)[i]

C10_Witness ==
    /\ IsCall("generator")
    /\ \E r \in 1..(Len(heap) - 1) :
           /\ heap[r].origin = Returned.origin
           /\ heap[r].elems # ExemplarSet(result.arg)
    /\ Returned.elems = ExemplarSet(result.arg)

C12_EmptyOptionsFixture ==
    (IsCall("fixture") /\ result.arg = "radioGroupInputEmptyOptions") =>
        /\ result.out.ret # Undefined
        /\ Field(result.out.ret, "name") = Str("empty-radio")
        /\ Field(result.out.ret, "key") = Str("empty-radio")
        /\ Field(result.out.ret, "options") = <<>>
        /\ Field(result.out.ret, "defaultValue") = Str("")

\* C13: radioGroupInput is a record with name 'radios', key 'radios', the
\* options ('Radio 1', '1'), ('Radio 2', '2'), ('Radio 3', '3') in that
\* order, and default selected value '2'.
C13_RadiosFixture ==
    (IsCall("fixture") /\ result.arg = "radioGroupInput") =>
        /\ result.out.ret # Undefined
        /\ Field(result.out.ret, "name") = Str("radios")
        /\ Field(result.out.ret, "key") = Str("radios")
        /\ Field(result.out.ret, "options") =
               << <<Prop("label", Str("Radio 1")), Prop("value", Str("1"))>>,
                  <<Prop("label", Str("Radio 2")), Prop("value", Str("2"))>>,
                  <<Prop("label", Str("Radio 3")), Prop("value", Str("3"))>> >>
        /\ Field(result.out.ret, "defaultValue") = Str("2")

\* C14: the component renders one item per element of options, in order,
\* with value and key String(option.value) and content option.label, in a
\* root with name name and defaultValue String(defaultValue); it renders
\* the root without items when options is undefined or empty.
C14_OneItemPerOption ==
    (IsCall("RadioGroupInput") /\ result.arg # Undefined) =>
        LET input == result.arg
            options == Field(input, "options")
            rendered == result.out.ret
        IN /\ ~result.out.threw
           /\ rendered.root.name = Field(input, "name")
           /\ rendered.root.defaultValue = String(Field(input, "defaultValue")).ret
           /\ IF options = Undefined THEN rendered.items = <<>>
              ELSE /\ Len(rendered.items) = Len(options)
                   /\ \A i \in 1..Len(options) :
                        /\ rendered.items[i].value = String(Field(options[i], "value")).ret
                        /\ rendered.items[i].key = String(Field(options[i], "value")).ret
                        /\ rendered.items[i].children = Field(options[i], "label")

C14_Witness ==
    /\ IsCall("RadioGroupInput")
    /\ result.arg # Undefined
    /\ Field(result.arg, "options") # Undefined
    /\ Len(Field(result.arg, "options")) = 2
    /\ Field(Field(result.arg, "options")[1], "value") = Num("1")
    /\ Field(Field(result.arg, "options")[2], "value") = Str("2")
    /\ Field(result.arg, "defaultValue") = Undefined
    /\ result.out.ret.root.defaultValue = "undefined"
    /\ result.out.ret.items[1].value = "1"
    /\ result.out.ret.items[2].value = "2"

C16_FirstMatchingLabel ==
    (IsCall("getObjectLabelValue") /\ result.arg \in ObjectValues) =>
        /\ (result.arg.sub \in {"Array", "Date", "RegExp"} \/ result.arg.tag) => ~result.out.threw
        /\ ~result.out.threw => result.out.ret =
               (IF result.arg.sub = "Array" THEN "array"
                ELSE IF result.arg.sub = "Date" THEN "Date"
                ELSE IF result.arg.sub = "RegExp" THEN "RegExp"
                ELSE IF result.arg.tag THEN "custom Symbol.toStringTag"
                ELSE IF result.arg.ownToString = "throws" THEN "throws on toString"
                ELSE "plain object")

C16_Witness ==
    /\ IsCall("getObjectLabelValue")
    /\ result.arg = Obj("Array", TRUE, "throws")
    /\ ~result.out.threw
    /\ result.out.ret = "array"

\* C17: getFunctionLabelValue(fn) is 'arrow function' exactly when fn.name
\* is empty or 'anonymous', 'named function' exactly when it is neither,
\* and never 'function'.
C17_FunctionLabel ==
    IsCall("getFunctionLabelValue") =>
        /\ result.out.ret = "arrow function" <=> result.arg.sub \in {"", "anonymous"}
        /\ result.out.ret = "named function" <=> result.arg.sub \notin {"", "anonymous"}
        /\ result.out.ret # "function"

C17_Witness ==
    /\ IsCall("getFunctionLabelValue")
    /\ result.arg = Fn("anonymous")
    /\ result.out.ret = "arrow function"

\* C18: the label arrays of the three exemplar sets, in order.
C18_LabelArrays ==
    IsCall("labels") =>
        /\ ~result.out.threw
        /\ result.arg = "primitive" =>
               result.out.ret = <<Str("string"), Str("number"), Str("boolean"), Str("undefined"),
                                  Str("null"), Str("symbol"), Str("bigint")>>
        /\ result.arg = "function" =>
               result.out.ret = <<Str("arrow function"), Str("named function")>>
        /\ result.arg = "object" =>
               result.out.ret = <<Str("plain object"), Str("array"), Str("Date"), Str("RegExp"),
                                  Str("custom Symbol.toStringTag"), Str("throws on toString")>>

C18_Witness ==
    /\ IsCall("labels")
    /\ result.arg = "primitive"
    /\ result.out.ret[5] = Str("null")

\* C19: getPrimitiveExpectedValue is true for every primitive value and
\* getFunctionExpectedValue is true for every function.
C19_ExpectationsConstantTrue ==
    /\ (IsCall("getPrimitiveExpectedValue") /\ result.arg \in PrimitiveValues) => result.out.ret = TRUE
    /\ IsCall("getFunctionExpectedValue") => result.out.ret = TRUE

\* C20: getObjectExpectedValue returns true for every object, whatever its
\* sub-category.
C20_ObjectExpectedTrue ==
    (IsCall("getObjectExpectedValue") /\ result.arg \in ObjectValues) =>
        ~result.out.threw /\ result.out.ret = TRUE

\* The label and the expectation function of a family applied to one
\* exemplar, and the label and expected arrays of a family.
LabelOf(family, v) ==
    CASE family = "primitive" -> Str(getPrimitiveLabelValue(v))
      [] family = "function" -> Str(getFunctionLabelValue(v))
      [] family = "object" -> Str(getObjectLabelValue(v).ret)

ExpectedOf(family, v) ==
    CASE family = "primitive" -> JSBool(getPrimitiveExpectedValue(v))
      [] family = "function" -> JSBool(getFunctionExpectedValue(v))
      [] family = "object" -> JSBool(getObjectExpectedValue(v).ret)

ExpectedValues(family, h) ==
    CASE family = "primitive" -> getAllPrimitiveExpectedValues(h)
      [] family = "function" -> getAllFunctionExpectedValues(h)
      [] family = "object" -> getAllObjectExpectedValues(h)

\* C21: in each builder the input, label and expected arrays have the same
\* length, and record i holds the i-th exemplar of the family, its label and
\* its expectation: the zip drops no exemplar.
C21_ZipKeepsEveryExemplar ==
    IsCall("builder") =>
        LET exemplars == Elems(Generator(result.arg, heap)) IN
        /\ ~result.out.threw
        /\ Len(LabelValues(result.arg, heap).ret) = Len(exemplars)
        /\ Len(ExpectedValues(result.arg, heap).ret) = Len(exemplars)
        /\ Len(ReturnedRecords) = Len(exemplars)
        /\ \A i \in 1..Len(exemplars) :
               /\ Get(ReturnedRecords[i], "input") = exemplars[i]
               /\ Get(ReturnedRecords[i], "label") = LabelOf(result.arg, exemplars[i])
               /\ Get(ReturnedRecords[i], "expected") = ExpectedOf(result.arg, exemplars[i])

C21_Witness ==
    /\ IsCall("builder") /\ result.arg = "object"
    /\ Len(ReturnedRecords) = 6
    /\ Get(ReturnedRecords[2], "input") = Obj("Array", FALSE, "absent")
    /\ Get(ReturnedRecords[2], "label") = Str("array")
    /\ Get(ReturnedRecords[6], "label") = Str("throws on toString")
    /\ Get(ReturnedRecords[6], "expected") = JSBool(TRUE)

\* C22: for an object that is no array, Date or RegExp and has no
\* Symbol.toStringTag, the label is 'throws on toString' when converting the
\* object to text throws and 'plain object' otherwise.
C22_ThrowsLabelIffConversionThrows ==
    (/\ IsCall("getObjectLabelValue")
     /\ result.arg \in ObjectValues
     /\ result.arg.sub \notin {"Array", "Date", "RegExp"}
     /\ ~result.arg.tag
     /\ ~result.out.threw) =>
        result.out.ret = (IF String(result.arg).threw THEN "throws on toString" ELSE "plain object")

\* C23: getObjectLabelValue and getObjectExpectedValue throw for no object
\* input.
C23_LabelAndExpectedNeverThrow ==
    (result.done /\ result.op \in {"getObjectLabelValue", "getObjectExpectedValue"}
        /\ result.arg \in ObjectValues) => ~result.out.threw

SixLabels ==
    {"array", "Date", "RegExp", "custom Symbol.toStringTag", "throws on toString", "plain object"}

C25_FallbackOnlyForNonObjects ==
    /\ (IsCall("getObjectLabelValue") /\ result.arg \in ObjectValues) =>
           ~result.out.threw /\ result.out.ret \in SixLabels
    /\ (IsCall("getObjectExpectedValue") /\ result.arg \in ObjectValues) =>
           ~result.out.threw /\ result.out.ret = TRUE
    /\ (IsCall("getObjectLabelValue") /\ ~result.out.threw /\ result.out.ret = "object") =>
           TypeOf(result.arg) # "object"
    /\ (IsCall("getObjectExpectedValue") /\ ~result.out.threw /\ result.out.ret = FALSE) =>
           TypeOf(result.arg) # "object"

\* C27: when the option values are pairwise distinct, the rendered items
\* have pairwise distinct keys and pairwise distinct values, and the items
\* selected at first are those of the options whose value equals
\* defaultValue.
C27_DistinctValuesDistinctKeys ==
    (/\ IsCall("RadioGroupInput")
     /\ result.arg # Undefined
     /\ Field(result.arg, "options") # Undefined
     /\ DistinctValues(result.arg)
     /\ ~result.out.threw) =>
        LET options == Field(result.arg, "options")
            items == result.out.ret.items
        IN /\ \A i, j \in 1..Len(items) :
                  i # j => (items[i].key # items[j].key /\ items[i].value # items[j].value)
           /\ \A i \in 1..Len(items) :
                  items[i].value = result.out.ret.root.defaultValue
                      => Field(options[i], "value") = Field(result.arg, "defaultValue")

\* C26: a call of addObjectArrays, toObjectArray, toArray or fromArray
\* leaves every array and record that existed before it unchanged; what
\* addObjectArrays returns is a new array of new records, so a later write
\* to a record of the result leaves the records of arr1 and arr2 unchanged.
C26_HelpersLeaveArgumentsUnchanged ==
    [][/\ \A r \in 1..Len(heap) :
              heap[r].origin = "caller" => (r <= Len(heap') /\ heap'[r] = heap[r])
       /\ (~result.done /\ result'.done) =>
              /\ Len(heap') >= Len(heap)
              /\ \A r \in 1..Len(heap) : heap'[r] = heap[r]
       /\ (~result.done /\ result'.done /\ result'.op = "addObjectArrays") =>
              /\ result'.out.ret > Len(heap)
              /\ heap'[result'.out.ret].kind = "array"
              /\ \A i \in 1..Len(heap'[result'.out.ret].elems) :
                     /\ heap'[result'.out.ret].elems[i].ref > Len(heap)
                     /\ heap'[heap'[result'.out.ret].elems[i].ref].kind = "record"]_vars

C26_Witness ==
    /\ IsCall("addObjectArrays")
    /\ result.arg = <<3, 6>>
    /\ nsteps >= 1
    /\ Len(heap[result.out.ret].elems) = 2
    /\ Get(heap[heap[result.out.ret].elems[1].ref].props, "a") = Str("mutated")
    /\ Get(heap[1].props, "a") = Num("1")
    /\ Get(heap[4].props, "b") = Num("2")
====
